---- MODULE Spec2Model ----
(***************************************************************************)
(* Model of the Ahorcado (hangman) game: src/app.js (the themed version,   *)
(* lines 1-322; lines 324-557 repeat an earlier version of the same file   *)
(* without themes) and src/funciones.js.                                   *)
(*                                                                         *)
(* A JavaScript string is modelled as a sequence of one-character strings  *)
(* (its UTF-16 code units), so "SOL" is <<"S", "O", "L">> and '' is <<>>.  *)
(* The DOM is modelled only where it carries information: the text read    *)
(* from letterInput is the parameter of procesarLetra, and the message of  *)
(* alert() is the variable alerta.  Rendering calls are assumed to return  *)
(* normally.  The panel of wrong letters (letrasIncorrectas, app.js:28) is *)
(* written and rendered but never read back, and is left out.              *)
(***************************************************************************)
EXTENDS Integers, Sequences, FiniteSets

VARIABLES
    palabraSecreta,      \* app.js:22  the secret word, upper-cased
    letrasDescubiertas,  \* app.js:23  one entry per position, "_" or the letter
    intentosFallidos,    \* app.js:24  number of failed attempts
    juegoTerminado,      \* app.js:25  TRUE once finalizarJuego ran
    letrasUsadas,        \* app.js:26  Set of upper-cased letters already used
    currentTheme,        \* app.js:27  'general', 'musica' or whatever was passed
    pendientes,          \* inicializarJuego calls suspended at the await of
                         \* app.js:57, counted per file being fetched
    victoria,            \* argument of the finalizarJuego call that ended the
                         \* running round and returned: "true", "false", or
                         \* "ninguna"
    llamadaFinal,        \* app.js:224  argument of the finalizarJuego call
                         \* that set juegoTerminado in the running round,
                         \* whether or not the call returned: "true",
                         \* "false", or "ninguna"
    alerta,              \* message of the alert() dialog that is open, ""
                         \* when none is.  alert() blocks the page: no
                         \* handler runs until the dialog is closed.
    resultMessage        \* app.js:36  what the result panel shows: "hidden",
                         \* "win", "lose", or "error" after mostrarError

vars == <<palabraSecreta, letrasDescubiertas, intentosFallidos, juegoTerminado,
          letrasUsadas, currentTheme, pendientes, victoria, llamadaFinal,
          alerta, resultMessage>>

\* The round state that a guess may touch.
ronda == <<palabraSecreta, letrasDescubiertas, intentosFallidos,
           juegoTerminado, letrasUsadas, victoria, llamadaFinal>>

-----------------------------------------------------------------------------
(* Constants and bounds *)

\* app.js:19
MAX_INTENTOS == 8

\* Bound of the model: how many inicializarJuego calls may be suspended on
\* their fetch at the same time.
MaxPendientes == 2

-----------------------------------------------------------------------------
(* Characters *)

Minusculas ==
    <<"a", "b", "c", "d", "e", "f", "g", "h", "i", "j", "k", "l", "m",
      "n", "o", "p", "q", "r", "s", "t", "u", "v", "w", "x", "y", "z",
      "ñ", "á", "é", "í", "ó", "ú">>

Mayusculas ==
    <<"A", "B", "C", "D", "E", "F", "G", "H", "I", "J", "K", "L", "M",
      "N", "O", "P", "Q", "R", "S", "T", "U", "V", "W", "X", "Y", "Z",
      "Ñ", "Á", "É", "Í", "Ó", "Ú">>

\* String.prototype.toUpperCase on one code unit.  Every character the model
\* uses outside Minusculas (capitals, digits, blanks, "_") is its own upper
\* case.
TablaMayusculas ==
    [c \in {Minusculas[i] : i \in 1..Len(Minusculas)} |->
        Mayusculas[CHOOSE i \in 1..Len(Minusculas) : Minusculas[i] = c]]

toUpperCaseChar(c) ==
    IF c \in DOMAIN TablaMayusculas THEN TablaMayusculas[c] ELSE c

\* String.prototype.toUpperCase
toUpperCase(s) == [i \in 1..Len(s) |-> toUpperCaseChar(s[i])]

\* The character class of the regular expression of funciones.js:58,
\* [a-zA-ZñÑáéíóúÁÉÍÓÚ]
ClaseLetras ==
    {Minusculas[i] : i \in 1..Len(Minusculas)} \cup
    {Mayusculas[i] : i \in 1..Len(Mayusculas)}

\* White space, as String.prototype.trim understands it (the blank and the
\* tab stand for the whole class).
Espacios == {" ", "\t"}

RECURSIVE trimStart(_)
trimStart(s) ==
    IF s # <<>> /\ Head(s) \in Espacios THEN trimStart(Tail(s)) ELSE s

RECURSIVE trimEnd(_)
trimEnd(s) ==
    IF s # <<>> /\ s[Len(s)] \in Espacios
    THEN trimEnd(SubSeq(s, 1, Len(s) - 1))
    ELSE s

\* String.prototype.trim
trim(s) == trimEnd(trimStart(s))

-----------------------------------------------------------------------------
(* funciones.js *)

MSG_VACIO == "Por favor, introduce una letra"
MSG_LARGO == "Solo puedes introducir una letra"
MSG_NO_LETRA == "Solo se permiten letras"
MSG_USADA == "Ya has usado esta letra. Intenta con otra."

\* The placeholder string of an undiscovered position.
GUION == <<"_">>

\* Mutant of crearGuiones: one placeholder too few, Array(palabra.length - 1).
crearGuionesCorto(palabra) == [i \in 1..(Len(palabra) - 1) |-> GUION]

\* funciones.js:40-42.  An array of strings, one "_" per code unit.
crearGuiones(palabra) == [i \in 1..Len(palabra) |-> GUION]

\* Mutant of validarInput: the test against the regular expression is
\* missing, so any single character passes.
validarInputSinClase(input) ==
    IF input = <<>> \/ trim(input) = <<>>
    THEN [valido |-> FALSE, mensaje |-> MSG_VACIO]
    ELSE IF Len(input) > 1
    THEN [valido |-> FALSE, mensaje |-> MSG_LARGO]
    ELSE [valido |-> TRUE, mensaje |-> ""]

\* Mutant of validarInput: the first test is only !input, without the trim.
validarInputSinTrim(input) ==
    IF input = <<>>
    THEN [valido |-> FALSE, mensaje |-> MSG_VACIO]
    ELSE IF Len(input) > 1
    THEN [valido |-> FALSE, mensaje |-> MSG_LARGO]
    ELSE IF input[1] \notin ClaseLetras
    THEN [valido |-> FALSE, mensaje |-> MSG_NO_LETRA]
    ELSE [valido |-> TRUE, mensaje |-> ""]

\* funciones.js:49-63
validarInput(input) ==
    IF input = <<>> \/ trim(input) = <<>>
    THEN [valido |-> FALSE, mensaje |-> MSG_VACIO]
    ELSE IF Len(input) > 1
    THEN [valido |-> FALSE, mensaje |-> MSG_LARGO]
    ELSE IF input[1] \notin ClaseLetras
    THEN [valido |-> FALSE, mensaje |-> MSG_NO_LETRA]
    ELSE [valido |-> TRUE, mensaje |-> ""]

\* funciones.js:75-79, the loop from position i on.  Positions are 1-based
\* here; palabra[i] is a one-character string, compared with the whole of
\* letraMayuscula.
RECURSIVE indicesDesde(_, _, _)
indicesDesde(letraMayuscula, palabra, i) ==
    IF i > Len(palabra) THEN <<>>
    ELSE IF <<palabra[i]>> = letraMayuscula
    THEN <<i>> \o indicesDesde(letraMayuscula, palabra, i + 1)
    ELSE indicesDesde(letraMayuscula, palabra, i + 1)

\* Mutant of comprobarLetra: the letter is compared as typed.
comprobarLetraSinMayuscula(letra, palabra) == indicesDesde(letra, palabra, 1)

\* funciones.js:71-82
comprobarLetra(letra, palabra) == indicesDesde(toUpperCase(letra), palabra, 1)

\* Mutant of revelarLetras: the new array is not a copy of the old one but a
\* fresh row of placeholders.
revelarDesdeGuiones(descubiertas, letra, indices) ==
    [i \in 1..Len(descubiertas) |->
        IF \E k \in 1..Len(indices) : indices[k] = i
        THEN toUpperCase(letra)
        ELSE GUION]

\* Mutant of revelarLetras: only the first index is written.
revelarSoloPrimera(descubiertas, letra, indices) ==
    [i \in 1..Len(descubiertas) |->
        IF indices # <<>> /\ indices[1] = i
        THEN toUpperCase(letra)
        ELSE descubiertas[i]]

\* funciones.js:91-97
revelarLetras(descubiertas, letra, indices) ==
    [i \in 1..Len(descubiertas) |->
        IF \E k \in 1..Len(indices) : indices[k] = i
        THEN toUpperCase(letra)
        ELSE descubiertas[i]]

\* Mutant of comprobarVictoria: it looks for "" instead of "_".
comprobarVictoriaVacio(descubiertas) ==
    ~ \E i \in 1..Len(descubiertas) : descubiertas[i] = <<>>

\* funciones.js:104-106
comprobarVictoria(descubiertas) ==
    ~ \E i \in 1..Len(descubiertas) : descubiertas[i] = GUION

\* String.prototype.split(''), used at app.js:250
split(s) == [i \in 1..Len(s) |-> <<s[i]>>]

\* funciones.js:30-33, with the random index (1-based) as a parameter.
obtenerPalabraAleatoria(palabras, indiceAleatorio) ==
    toUpperCase(palabras[indiceAleatorio].item)

-----------------------------------------------------------------------------
(* The environment: files, fetch results and typed text *)

Archivos == {"words.json", "words2.json"}

\* The word lists the two files hold.  The entries are as in the files:
\* mixed case, a phrase with a blank, accented letters.
Documento(archivo) ==
    IF archivo = "words2.json"
    THEN <<[item |-> <<"ñ", "á">>]>>
    ELSE <<[item |-> <<"A", "b", "a">>], [item |-> <<"b", " ", "c">>]>>

\* What cargarPalabras (funciones.js:11-23) can come back with: it throws
\* (fetch rejected, response not ok, JSON not parsable), or it returns
\* data.words, here the file's list or an empty list.
Respuestas(archivo) ==
    { [ok |-> FALSE, words |-> <<>>],
      [ok |-> TRUE,  words |-> <<>>],
      [ok |-> TRUE,  words |-> Documento(archivo)] }

\* The texts procesarLetra finds in letterInput.value: letters in both
\* cases, and texts that are empty, blank, too long or no letter.  Between
\* them the letters give ten different upper-case letters, so that every
\* word of Documento leaves MAX_INTENTOS letters that are not in it.
Entradas ==
    { <<"A">>, <<"a">>, <<"b">>, <<"C">>, <<"D">>, <<"E">>, <<"F">>,
      <<"G">>, <<"H">>, <<"ñ">>, <<"á">>,
      <<>>, <<" ">>, <<" ", " ">>, <<"5">>, <<"_">>,
      <<"a", "b">>, <<" ", "a">> }

-----------------------------------------------------------------------------
(* app.js *)

TotalPendientes == pendientes["words.json"] + pendientes["words2.json"]

\* app.js:48-57: inicializarJuego up to its await.  The theme is recorded at
\* once, the file is chosen from it and the call is suspended on the fetch.
inicializarJuego(theme) ==
    LET archivo == IF theme = "musica" THEN "words2.json" ELSE "words.json"
    IN  /\ alerta = ""
        /\ TotalPendientes < MaxPendientes
        /\ currentTheme' = theme
        /\ pendientes' = [pendientes EXCEPT ![archivo] = @ + 1]
        /\ UNCHANGED <<ronda, alerta, resultMessage>>

\* Mutant of inicializarEstado: letrasUsadas.clear() is missing.
inicializarEstadoSinLimpiar(palabra) ==
    /\ palabraSecreta' = palabra
    /\ letrasDescubiertas' = crearGuiones(palabra)
    /\ intentosFallidos' = 0
    /\ juegoTerminado' = FALSE
    /\ victoria' = "ninguna"
    /\ llamadaFinal' = "ninguna"
    /\ UNCHANGED letrasUsadas

\* app.js:60-68, the state of the round that the start installs.
inicializarEstado(palabra) ==
    /\ palabraSecreta' = palabra
    /\ letrasDescubiertas' = crearGuiones(palabra)
    /\ intentosFallidos' = 0
    /\ juegoTerminado' = FALSE
    /\ letrasUsadas' = {}
    /\ victoria' = "ninguna"
    /\ llamadaFinal' = "ninguna"

\* app.js:57-96: a suspended inicializarJuego call resumes with a list of
\* words, draws one and replaces the round; the result panel is hidden.
inicioCompletado(archivo) ==
    /\ alerta = ""
    /\ pendientes[archivo] > 0
    /\ pendientes' = [pendientes EXCEPT ![archivo] = @ - 1]
    /\ \E r \in Respuestas(archivo) :
        /\ r.ok /\ r.words # <<>>
        /\ \E indiceAleatorio \in 1..Len(r.words) :
            inicializarEstado(obtenerPalabraAleatoria(r.words, indiceAleatorio))
    /\ resultMessage' = "hidden"
    /\ UNCHANGED <<currentTheme, alerta>>

\* app.js:269-275 when DOM calls may throw: what the result panel shows after
\* a catch block called mostrarError, given what it showed when the try block
\* threw.  mostrarError shows the error, or throws itself before it changes
\* the classes of the panel (app.js:270-271; resultMessage is null on a page
\* without #result-message) and the panel stays as it was.
panelTrasCatch(panel) == {"error", panel}

\* app.js:57-101 when a DOM call throws: a suspended inicializarJuego call
\* resumes with a list of words, draws one and replaces the round
\* (app.js:60-68), and one of the DOM calls that follow (app.js:71-96) throws:
\* before the panel is hidden at app.js:87, or after it.  The catch block
\* calls mostrarError.
inicioLanza(archivo) ==
    /\ alerta = ""
    /\ pendientes[archivo] > 0
    /\ pendientes' = [pendientes EXCEPT ![archivo] = @ - 1]
    /\ \E r \in Respuestas(archivo) :
        /\ r.ok /\ r.words # <<>>
        /\ \E indiceAleatorio \in 1..Len(r.words) :
            inicializarEstado(obtenerPalabraAleatoria(r.words, indiceAleatorio))
    /\ \E panel \in {resultMessage, "hidden"} :
          resultMessage' \in panelTrasCatch(panel)
    /\ UNCHANGED <<currentTheme, alerta>>

\* app.js:57-60, 98-101 when mostrarError throws: a suspended inicializarJuego
\* call resumes and throws before it assigns anything, as in inicioFallido,
\* and the mostrarError call of the catch block throws as well: nothing but
\* the end of the call is left of it.
inicioFallidoLanza(archivo) ==
    /\ alerta = ""
    /\ pendientes[archivo] > 0
    /\ pendientes' = [pendientes EXCEPT ![archivo] = @ - 1]
    /\ \E r \in Respuestas(archivo) : ~r.ok \/ r.words = <<>>
    /\ UNCHANGED <<ronda, currentTheme, alerta, resultMessage>>

\* Mutant of inicioFallido: the counters are reset before the word is drawn,
\* so a start that throws has already cleared them.
inicioFallidoParcial(archivo) ==
    /\ alerta = ""
    /\ pendientes[archivo] > 0
    /\ pendientes' = [pendientes EXCEPT ![archivo] = @ - 1]
    /\ \E r \in Respuestas(archivo) : ~r.ok \/ r.words = <<>>
    /\ resultMessage' = "error"
    /\ intentosFallidos' = 0
    /\ letrasUsadas' = {}
    /\ UNCHANGED <<palabraSecreta, letrasDescubiertas, juegoTerminado,
                   victoria, llamadaFinal, currentTheme, alerta>>

\* app.js:57-60, 98-101: a suspended inicializarJuego call resumes and
\* throws before it assigns anything: cargarPalabras threw, or the list is
\* empty (then palabras[0] is undefined and reading .item throws).  The catch
\* block shows the error.
inicioFallido(archivo) ==
    /\ alerta = ""
    /\ pendientes[archivo] > 0
    /\ pendientes' = [pendientes EXCEPT ![archivo] = @ - 1]
    /\ \E r \in Respuestas(archivo) : ~r.ok \/ r.words = <<>>
    /\ resultMessage' = "error"
    /\ UNCHANGED <<ronda, currentTheme, alerta>>

\* app.js:57-101: a suspended inicializarJuego call resumes with the outcome
\* of cargarPalabras.
reanudarInicio(archivo) ==
    \/ inicioCompletado(archivo)
    \/ inicioFallido(archivo)

\* app.js:299-308
clickThemeGeneral ==
    /\ currentTheme # "general"
    /\ inicializarJuego("general")

\* app.js:310-319
clickThemeMusica ==
    /\ currentTheme # "musica"
    /\ inicializarJuego("musica")

\* app.js:296: the listener is inicializarJuego itself, so the click event is
\* what arrives as theme.  The button is shown by finalizarJuego (app.js:262)
\* and hidden again by inicializarJuego (app.js:87): it can be clicked while
\* juegoTerminado.
clickRestart ==
    /\ juegoTerminado
    /\ inicializarJuego("[object PointerEvent]")

\* Mutant of finalizarJuego: the defeat branch does not disclose the word.
finalizarJuegoSinRevelar(victoriaArg, descubiertas) == descubiertas

\* app.js:224-263: what finalizarJuego leaves in letrasDescubiertas, which
\* holds descubiertas when it is called.
finalizarJuego(victoriaArg, descubiertas) ==
    IF victoriaArg THEN descubiertas ELSE split(palabraSecreta)

\* Mutant of yaUsada: the set is asked for the letter as typed.
yaUsadaComoTecleada(letra) == letra \in letrasUsadas

\* app.js:125
yaUsada(letra) == toUpperCase(letra) \in letrasUsadas

\* Mutants of derrota: the comparison is off by one, either way.
derrotaTardia(intentos) == intentos > MAX_INTENTOS

derrotaTemprana(intentos) == intentos >= MAX_INTENTOS - 1

\* Mutant of derrota: the attempts never run out.
derrotaNunca(intentos) == FALSE

\* app.js:160
derrota(intentos) == intentos >= MAX_INTENTOS

\* app.js:110-168, the body of the try block.  When it rejects the text it
\* stops in alert() with the dialog open; what it does once the dialog is
\* closed (app.js:117-119, 127-129) changes nothing of the state.
tramitarLetra(letra) ==
    LET validacion == validarInput(letra)
        letraMayuscula == toUpperCase(letra)
        indices == comprobarLetra(letra, palabraSecreta)
        reveladas == revelarLetras(letrasDescubiertas, letra, indices)
    IN
    IF ~validacion.valido
    THEN /\ alerta' = validacion.mensaje
         /\ UNCHANGED <<ronda, currentTheme, pendientes, resultMessage>>
    ELSE IF yaUsada(letra)
    THEN /\ alerta' = MSG_USADA
         /\ UNCHANGED <<ronda, currentTheme, pendientes, resultMessage>>
    ELSE
        /\ letrasUsadas' = letrasUsadas \cup {letraMayuscula}
        /\ IF Len(indices) > 0
           THEN IF comprobarVictoria(reveladas)
                THEN /\ letrasDescubiertas' = finalizarJuego(TRUE, reveladas)
                     /\ juegoTerminado' = TRUE
                     /\ victoria' = "true"
                     /\ llamadaFinal' = "true"
                     /\ resultMessage' = "win"
                     /\ UNCHANGED intentosFallidos
                ELSE /\ letrasDescubiertas' = reveladas
                     /\ UNCHANGED <<intentosFallidos, juegoTerminado, victoria,
                                    llamadaFinal, resultMessage>>
           ELSE /\ intentosFallidos' = intentosFallidos + 1
                /\ IF derrota(intentosFallidos + 1)
                   THEN /\ letrasDescubiertas' =
                              finalizarJuego(FALSE, letrasDescubiertas)
                        /\ juegoTerminado' = TRUE
                        /\ victoria' = "false"
                        /\ llamadaFinal' = "false"
                        /\ resultMessage' = "lose"
                   ELSE UNCHANGED <<letrasDescubiertas, juegoTerminado,
                                    victoria, llamadaFinal, resultMessage>>
        /\ UNCHANGED <<palabraSecreta, currentTheme, pendientes, alerta>>

\* Mutant of procesarLetra: the guard of app.js:108 is missing.
procesarLetraSinGuarda(letra) == alerta = "" /\ tramitarLetra(letra)

\* app.js:107-173, with the text of letterInput as parameter.
procesarLetra(letra) ==
    /\ alerta = ""
    /\ IF juegoTerminado
       THEN UNCHANGED vars
       ELSE tramitarLetra(letra)

\* The places of procesarLetra's try block, after the letter was recorded,
\* where a DOM call can throw, grouped by what has been assigned by then:
\*   "render"            the rendering of the branch (renderizarPalabra at
\*                       app.js:141; actualizarIntentos,
\*                       renderizarLetrasIncorrectas or hangmanImg.src at
\*                       app.js:150-157), before the victory or defeat check;
\*   "finalizar"         inside finalizarJuego after juegoTerminado = true
\*                       (app.js:225): app.js:226-262 for a victory,
\*                       app.js:226-247 for a defeat, before the word is
\*                       disclosed;
\*   "finalizarRevelada" inside finalizarJuego(false) after the disclosure of
\*                       app.js:250 (app.js:251-262);
\*   "limpiar"           letterInput.value = '' or letterInput.focus()
\*                       (app.js:166-167), after everything else was done.
PuntosDeFallo == {"render", "finalizar", "finalizarRevelada", "limpiar"}

\* app.js:110-172 and 224-263 when a DOM call throws: procesarLetra with a
\* letter it accepts, where the call at the given place throws.  The rest of
\* the try block is skipped and the catch block calls mostrarError
\* (app.js:169-172).  victoria is only recorded by a finalizarJuego call that
\* returns.
procesarLetraLanza(letra, punto) ==
    LET indices == comprobarLetra(letra, palabraSecreta)
        reveladas == revelarLetras(letrasDescubiertas, letra, indices)
        acierto == Len(indices) > 0
        gana == acierto /\ comprobarVictoria(reveladas)
        pierde == ~acierto /\ derrota(intentosFallidos + 1)
        trasRama == IF acierto THEN reveladas ELSE letrasDescubiertas
        argumento == IF gana THEN "true"
                     ELSE IF pierde THEN "false"
                     ELSE llamadaFinal
        \* What the panel can show when the try block throws: finalizarJuego
        \* sets it at app.js:239-241 (victory) or 255-257 (defeat), so a
        \* throw at app.js:262 or later finds it set.
        panelAlLanzar ==
            CASE punto = "render" -> {resultMessage}
              [] punto = "finalizar" ->
                    IF gana THEN {resultMessage, "win"} ELSE {resultMessage}
              [] punto = "finalizarRevelada" -> {resultMessage, "lose"}
              [] punto = "limpiar" ->
                    IF gana THEN {"win"}
                    ELSE IF pierde THEN {"lose"}
                    ELSE {resultMessage}
    IN  /\ alerta = ""
        /\ ~juegoTerminado
        /\ validarInput(letra).valido
        /\ ~yaUsada(letra)
        /\ letrasUsadas' = letrasUsadas \cup {toUpperCase(letra)}
        /\ intentosFallidos' =
              IF acierto THEN intentosFallidos ELSE intentosFallidos + 1
        /\ CASE punto = "render" ->
                  /\ letrasDescubiertas' = trasRama
                  /\ UNCHANGED <<juegoTerminado, victoria, llamadaFinal>>
             [] punto = "finalizar" ->
                  /\ gana \/ pierde
                  /\ letrasDescubiertas' = trasRama
                  /\ juegoTerminado' = TRUE
                  /\ llamadaFinal' = argumento
                  /\ UNCHANGED victoria
             [] punto = "finalizarRevelada" ->
                  /\ pierde
                  /\ letrasDescubiertas' =
                        finalizarJuego(FALSE, letrasDescubiertas)
                  /\ juegoTerminado' = TRUE
                  /\ llamadaFinal' = argumento
                  /\ UNCHANGED victoria
             [] punto = "limpiar" ->
                  /\ letrasDescubiertas' =
                        IF gana THEN finalizarJuego(TRUE, reveladas)
                        ELSE IF pierde
                        THEN finalizarJuego(FALSE, letrasDescubiertas)
                        ELSE trasRama
                  /\ juegoTerminado' = (gana \/ pierde)
                  /\ victoria' = IF gana THEN "true"
                                 ELSE IF pierde THEN "false"
                                 ELSE victoria
                  /\ llamadaFinal' = argumento
        /\ \E panel \in panelAlLanzar :
              resultMessage' \in panelTrasCatch(panel)
        /\ UNCHANGED <<palabraSecreta, currentTheme, pendientes, alerta>>

\* app.js:108-111 and 169-172: procesarLetra when the read of
\* letterInput.value throws, before anything is validated or recorded.  The
\* catch block calls mostrarError.
leerLetraLanza ==
    /\ alerta = ""
    /\ ~juegoTerminado
    /\ resultMessage' \in panelTrasCatch(resultMessage)
    /\ UNCHANGED <<ronda, currentTheme, pendientes, alerta>>

\* app.js:116-119 and 126-129 when a DOM call throws: the user closes the
\* alert() dialog and letterInput.value = '' or letterInput.focus() throws;
\* the catch block calls mostrarError.
cerrarAlertaLanza ==
    /\ alerta # ""
    /\ alerta' = ""
    /\ resultMessage' \in panelTrasCatch(resultMessage)
    /\ UNCHANGED <<ronda, currentTheme, pendientes>>

\* The user closes the alert() dialog.
cerrarAlerta ==
    /\ alerta # ""
    /\ alerta' = ""
    /\ UNCHANGED <<ronda, currentTheme, pendientes, resultMessage>>

-----------------------------------------------------------------------------
(* The state machine *)

\* The page has loaded: the module state of app.js:22-28 and the
\* inicializarJuego() of app.js:322 suspended on its fetch of words.json.
Init ==
    /\ palabraSecreta = <<>>
    /\ letrasDescubiertas = <<>>
    /\ intentosFallidos = 0
    /\ juegoTerminado = FALSE
    /\ letrasUsadas = {}
    /\ currentTheme = "general"
    /\ pendientes = [a \in Archivos |-> IF a = "words.json" THEN 1 ELSE 0]
    /\ victoria = "ninguna"
    /\ llamadaFinal = "ninguna"
    /\ alerta = ""
    /\ resultMessage = "hidden"

Next ==
    \/ \E letra \in Entradas : procesarLetra(letra)
    \/ cerrarAlerta
    \/ \E archivo \in Archivos : reanudarInicio(archivo)
    \/ clickThemeGeneral
    \/ clickThemeMusica
    \/ clickRestart

Spec == Init /\ [][Next]_vars

-----------------------------------------------------------------------------
(* Vocabulary of the specification, in terms of the program state *)

RoundStatus ==
    IF ~juegoTerminado THEN "InProgress"
    ELSE IF llamadaFinal = "true" THEN "Won" ELSE "Lost"

\* The text is one character of the accepted alphabet.
EsLetra(letra) == Len(letra) = 1 /\ letra[1] \in ClaseLetras

\* The text is a letter that guess() accepts in the current state.
Aceptada(letra) ==
    /\ ~juegoTerminado
    /\ EsLetra(letra)
    /\ <<toUpperCaseChar(letra[1])>> \notin letrasUsadas

\* The positions of SecretWord that hold the letter, in canonical case.
Posiciones(letra) ==
    {i \in 1..Len(palabraSecreta) :
        palabraSecreta[i] = toUpperCaseChar(letra[1])}

\* RevealState discloses SecretWord position by position.
Revelada(descubiertas) ==
    /\ Len(descubiertas) = Len(palabraSecreta)
    /\ \A i \in 1..Len(palabraSecreta) : descubiertas[i] = <<palabraSecreta[i]>>

SinGuiones(descubiertas) ==
    \A i \in 1..Len(descubiertas) : descubiertas[i] # GUION

-----------------------------------------------------------------------------
(* Claims *)

\* C1: in every reachable state RevealState (letrasDescubiertas) is as long
\* as SecretWord (palabraSecreta).
C1_LongitudIgual == Len(letrasDescubiertas) = Len(palabraSecreta)

\* A round that was started, had a correct guess, incorrect guesses and the
\* losing guess.
C1_Testigo ==
    /\ RoundStatus = "Lost"
    /\ palabraSecreta = <<"A", "B", "A">>
    /\ <<"A">> \in letrasUsadas

\* C2: an accepted guess whose letter occurs in SecretWord turns exactly the
\* positions of the letter from placeholder to the letter, leaves every other
\* position as it was and leaves AttemptCounter as it was.
C2_RevelaTodas ==
    [][ \A letra \in Entradas :
          (Aceptada(letra) /\ Posiciones(letra) # {} /\ procesarLetra(letra))
          => /\ Len(letrasDescubiertas') = Len(letrasDescubiertas)
             /\ \A i \in 1..Len(letrasDescubiertas) :
                  IF i \in Posiciones(letra)
                  THEN /\ letrasDescubiertas[i] = GUION
                       /\ letrasDescubiertas'[i] = <<toUpperCaseChar(letra[1])>>
                  ELSE letrasDescubiertas'[i] = letrasDescubiertas[i]
             /\ intentosFallidos' = intentosFallidos ]_vars

\* The letter A of ABA was revealed at both of its positions by a guess, in
\* a round that already had a failed attempt.
C2_Testigo ==
    /\ letrasDescubiertas = << <<"A">>, GUION, <<"A">> >>
    /\ intentosFallidos > 0
    /\ ~juegoTerminado

\* C3, as stated: an accepted guess whose letter occurs nowhere in SecretWord
\* adds exactly 1 to AttemptCounter and leaves RevealState unchanged.
C3_Original ==
    [][ \A letra \in Entradas :
          (Aceptada(letra) /\ Posiciones(letra) = {} /\ procesarLetra(letra))
          => /\ intentosFallidos' = intentosFallidos + 1
             /\ letrasDescubiertas' = letrasDescubiertas ]_vars

\* C3, amended: such a guess adds exactly 1 to AttemptCounter; RevealState is
\* unchanged when the counter stays below the maximum, and discloses
\* SecretWord when the counter reaches it.
C3_FalloCuentaUno ==
    [][ \A letra \in Entradas :
          (Aceptada(letra) /\ Posiciones(letra) = {} /\ procesarLetra(letra))
          => /\ intentosFallidos' = intentosFallidos + 1
             /\ IF intentosFallidos + 1 < MAX_INTENTOS
                THEN letrasDescubiertas' = letrasDescubiertas
                ELSE Revelada(letrasDescubiertas') ]_vars

\* The round of ÑÁ was lost without any of its letters having been guessed.
C3_Testigo ==
    /\ RoundStatus = "Lost"
    /\ palabraSecreta = <<"Ñ", "Á">>
    /\ letrasUsadas \cap {<<"Ñ">>, <<"Á">>} = {}

\* C4: a guess of a letter already in GuessedLetters (compared in upper case)
\* leaves AttemptCounter, RevealState, GuessedLetters and RoundStatus as they
\* were, and while the round is in progress it is answered with the
\* already-used alert.
C4_Repetida ==
    [][ \A letra \in Entradas :
          (/\ EsLetra(letra)
           /\ <<toUpperCaseChar(letra[1])>> \in letrasUsadas
           /\ procesarLetra(letra))
          => /\ UNCHANGED <<intentosFallidos, letrasDescubiertas, letrasUsadas,
                           juegoTerminado, victoria>>
             /\ ~juegoTerminado => alerta' = MSG_USADA ]_vars

\* The already-used alert is open in a started round in which A was guessed
\* and an attempt failed.
C4_Testigo ==
    /\ alerta = MSG_USADA
    /\ palabraSecreta # <<>>
    /\ <<"A">> \in letrasUsadas
    /\ intentosFallidos > 0

\* C5: AttemptCounter stays within 0..8, and the round is Lost exactly when
\* the counter is 8.
C5_Intentos ==
    /\ intentosFallidos \in 0..MAX_INTENTOS
    /\ RoundStatus = "Lost" <=> intentosFallidos = MAX_INTENTOS

\* A started round with seven failed attempts, still in progress.
C5_Testigo ==
    /\ RoundStatus = "InProgress"
    /\ palabraSecreta # <<>>
    /\ intentosFallidos = MAX_INTENTOS - 1

\* C6, as stated (for accepted guesses of a started round): the guess moves
\* the round to Won if and only if RevealState holds no placeholder after it.
C6_Original ==
    [][ \A letra \in Entradas :
          (Aceptada(letra) /\ palabraSecreta # <<>> /\ procesarLetra(letra))
          => (RoundStatus' = "Won" <=> SinGuiones(letrasDescubiertas')) ]_vars

\* C6, amended: a guess moves the round from InProgress to Won if and only if
\* it is an accepted guess whose letter occurs in SecretWord and RevealState
\* holds no placeholder after it.
C6_Victoria ==
    [][ \A letra \in Entradas :
          (~juegoTerminado /\ procesarLetra(letra))
          => (RoundStatus' = "Won"
                <=> /\ Aceptada(letra)
                    /\ Posiciones(letra) # {}
                    /\ SinGuiones(letrasDescubiertas')) ]_vars

\* A round was won after a failed attempt.
C6_Testigo ==
    /\ RoundStatus = "Won"
    /\ intentosFallidos > 0

\* C7: once the round is over it was ended by a win or by a defeat, every
\* guess leaves the round state as it is, and the round state changes only
\* when a start completes.
C7_Terminal ==
    [][ juegoTerminado =>
          /\ victoria \in {"true", "false"}
          /\ \A letra \in Entradas : procesarLetra(letra) => UNCHANGED ronda
          /\ \/ UNCHANGED <<letrasDescubiertas, letrasUsadas, intentosFallidos,
                            juegoTerminado, victoria>>
             \/ \E archivo \in Archivos : reanudarInicio(archivo) ]_vars

\* The round is over, a restart was asked for and its fetch has come back
\* without replacing the round.
C7_Testigo ==
    /\ juegoTerminado
    /\ currentTheme = "[object PointerEvent]"
    /\ TotalPendientes = 0

\* C8: whenever the round is Lost, RevealState equals SecretWord position by
\* position.
C8_DerrotaRevela == RoundStatus = "Lost" => Revelada(letrasDescubiertas)

\* ABA was lost with eight letters that are not in it and none that is.
C8_Testigo ==
    /\ RoundStatus = "Lost"
    /\ palabraSecreta = <<"A", "B", "A">>
    /\ letrasUsadas \cap {<<"A">>, <<"B">>} = {}
    /\ Cardinality(letrasUsadas) = MAX_INTENTOS

\* C9: a text that is not one character of the accepted alphabet leaves
\* GuessedLetters, RevealState, AttemptCounter and RoundStatus as they were.
C9_InvalidaNoCuenta ==
    [][ \A letra \in Entradas :
          (~EsLetra(letra) /\ procesarLetra(letra))
          => UNCHANGED <<letrasUsadas, letrasDescubiertas, intentosFallidos,
                         juegoTerminado, victoria, palabraSecreta>> ]_vars

\* The not-a-letter alert is open in a started round that has guesses.
C9_Testigo ==
    /\ alerta = MSG_NO_LETRA
    /\ palabraSecreta # <<>>
    /\ letrasUsadas # {}

\* The text consists of white space only (the empty text included).
EnBlanco(letra) == \A i \in 1..Len(letra) : letra[i] \in Espacios

\* The alert a text is answered with when it is classified as the claim says.
MotivoOriginal(letra) ==
    IF letra = <<>> THEN MSG_VACIO
    ELSE IF Len(letra) > 1 THEN MSG_LARGO
    ELSE MSG_NO_LETRA

\* The same, with blank texts classified as empty.
MotivoEnmendado(letra) ==
    IF EnBlanco(letra) THEN MSG_VACIO
    ELSE IF Len(letra) > 1 THEN MSG_LARGO
    ELSE MSG_NO_LETRA

\* C10, as stated: a text is valid exactly when it is one character of the
\* accepted alphabet; otherwise the reason is Empty for the empty text,
\* TooLong for a text of more than one character, DisallowedCharacter for a
\* single character outside the alphabet (a blank among them).
C10_Original ==
    [][ \A letra \in Entradas :
          (~juegoTerminado /\ procesarLetra(letra))
          => IF EsLetra(letra)
             THEN alerta' \in {"", MSG_USADA}
             ELSE alerta' = MotivoOriginal(letra) ]_vars

\* C10, amended: valid exactly when one character of the accepted alphabet;
\* Empty exactly when the text is empty or only white space; TooLong for a
\* text of more than one character that is not only white space;
\* DisallowedCharacter for a single character that is neither white space
\* nor of the alphabet; the three reasons are different messages.
C10_Validacion ==
    [][ \A letra \in Entradas :
          (~juegoTerminado /\ procesarLetra(letra))
          => /\ IF EsLetra(letra)
                THEN alerta' \in {"", MSG_USADA}
                ELSE alerta' = MotivoEnmendado(letra)
             /\ Cardinality({"", MSG_USADA, MSG_VACIO, MSG_LARGO,
                             MSG_NO_LETRA}) = 5 ]_vars

\* The empty-text alert is open in a started round.
C10_Testigo ==
    /\ alerta = MSG_VACIO
    /\ palabraSecreta # <<>>

-----------------------------------------------------------------------------
(* A single game: no theme buttons, no restart button *)

NextPartida ==
    \/ \E letra \in Entradas : procesarLetra(letra)
    \/ cerrarAlerta
    \/ \E archivo \in Archivos : reanudarInicio(archivo)

\* The player submits a letter that procesarLetra accepts.
adivinarAceptada ==
    \E letra \in Entradas : Aceptada(letra) /\ procesarLetra(letra)

\* The player of a single game closes every dialog and keeps submitting
\* letters that were not submitted before.
SpecJugador ==
    /\ Init
    /\ [][NextPartida]_vars
    /\ WF_vars(cerrarAlerta)
    /\ SF_vars(adivinarAceptada)

\* A single game in which the DOM calls of procesarLetra and of
\* inicializarJuego may throw.
NextFallos ==
    \/ NextPartida
    \/ \E letra \in Entradas, punto \in PuntosDeFallo :
          procesarLetraLanza(letra, punto)
    \/ cerrarAlertaLanza
    \/ leerLetraLanza
    \/ \E archivo \in Archivos : inicioLanza(archivo)
    \/ \E archivo \in Archivos : inicioFallidoLanza(archivo)

SpecFallos == Init /\ [][NextFallos]_vars

\* The words of a corpus file, as obtenerPalabraAleatoria returns them.
PalabrasDe(archivo) ==
    {obtenerPalabraAleatoria(Documento(archivo), i) :
        i \in 1..Len(Documento(archivo))}

\* The fields of the round that the specification lists.
estadoRonda ==
    <<palabraSecreta, letrasDescubiertas, letrasUsadas, intentosFallidos,
      juegoTerminado, victoria, llamadaFinal>>

\* C11: a start that completes leaves every position of RevealState a
\* placeholder, GuessedLetters empty, AttemptCounter 0 and the round
\* InProgress, whatever the round before it was.
C11_InicioLimpio ==
    [][ \A archivo \in Archivos :
          inicioCompletado(archivo)
          => /\ Len(letrasDescubiertas') = Len(palabraSecreta')
             /\ \A i \in 1..Len(letrasDescubiertas') :
                   letrasDescubiertas'[i] = GUION
             /\ letrasUsadas' = {}
             /\ intentosFallidos' = 0
             /\ ~juegoTerminado' ]_vars

\* The restart button was pressed (which takes a finished round) and the
\* start it requested has completed: the round is fresh.
C11_Testigo ==
    /\ currentTheme = "[object PointerEvent]"
    /\ TotalPendientes = 0
    /\ palabraSecreta # <<>>
    /\ letrasUsadas = {}
    /\ intentosFallidos = 0
    /\ RoundStatus = "InProgress"
    /\ resultMessage = "hidden"

\* C12: a start that fails (the corpus cannot be fetched or parsed, or its
\* word list is empty) reports the failure and leaves SecretWord, RevealState,
\* GuessedLetters, AttemptCounter and RoundStatus as they were; the secret
\* word is never anything but the initial empty text or a word of a corpus.
C12_FalloConserva ==
    /\ [](palabraSecreta \in
            {<<>>} \cup UNION {PalabrasDe(archivo) : archivo \in Archivos})
    /\ [][ \A archivo \in Archivos :
             inicioFallido(archivo)
             => /\ UNCHANGED estadoRonda
                /\ resultMessage' = "error" ]_vars

\* A failure is on display over a round that has a revealed letter and
\* incorrect guesses.
C12_Testigo ==
    /\ resultMessage = "error"
    /\ palabraSecreta # <<>>
    /\ ~SinGuiones(letrasDescubiertas)
    /\ \E i \in 1..Len(letrasDescubiertas) : letrasDescubiertas[i] # GUION
    /\ intentosFallidos > 0
    /\ RoundStatus = "InProgress"

\* C13: a guess during which an error is raised (a DOM call throws after the
\* letter was recorded) leaves GuessedLetters, RevealState, AttemptCounter and
\* RoundStatus as they were before the guess.
C13_Original ==
    [][ \A letra \in Entradas, punto \in PuntosDeFallo :
          procesarLetraLanza(letra, punto)
          => UNCHANGED <<letrasUsadas, letrasDescubiertas, intentosFallidos,
                         juegoTerminado, victoria, llamadaFinal>> ]_vars

\* C14: while a start is pending and a round was started before, a guess is
\* not applied to the round.
C14_Original ==
    [][ \A letra \in Entradas :
          (TotalPendientes > 0 /\ palabraSecreta # <<>>
              /\ procesarLetra(letra))
          => UNCHANGED estadoRonda ]_vars

\* The distinct letters of SecretWord.
LetrasDistintas ==
    {palabraSecreta[i] : i \in 1..Len(palabraSecreta)} \cap ClaseLetras

\* C15: a round has at most (distinct letters of SecretWord + 8) accepted
\* guesses, and while the player keeps submitting letters that were not
\* guessed before, a round in progress ends.
C15_Termina ==
    /\ [](Cardinality(letrasUsadas) >= Cardinality(LetrasDistintas) + MAX_INTENTOS
            => juegoTerminado)
    /\ [](Cardinality(letrasUsadas) <= Cardinality(LetrasDistintas) + MAX_INTENTOS)
    /\ (~juegoTerminado ~> juegoTerminado)

\* The round of a phrase is lost with the largest number of accepted guesses:
\* its two letters and eight others.
C15_Testigo ==
    /\ palabraSecreta = <<"B", " ", "C">>
    /\ RoundStatus = "Lost"
    /\ Cardinality(letrasUsadas) = Cardinality(LetrasDistintas) + MAX_INTENTOS
    /\ Cardinality(LetrasDistintas) = 2

\* C16: once a round was started, only a start that completes changes the
\* theme.
C16_Original ==
    [][ (palabraSecreta # <<>>
            /\ ~(\E archivo \in Archivos : inicioCompletado(archivo)))
        => UNCHANGED currentTheme ]_vars

\* C17: between two completed starts a position of RevealState that shows a
\* letter keeps showing that letter.
C17_SoloRevela ==
    [][ ~(\E archivo \in Archivos : inicioCompletado(archivo))
        => /\ Len(letrasDescubiertas') = Len(letrasDescubiertas)
           /\ \A i \in 1..Len(letrasDescubiertas) :
                 letrasDescubiertas[i] # GUION
                 => letrasDescubiertas'[i] = letrasDescubiertas[i] ]_vars

\* A two-letter word was won with two guesses and incorrect ones: the letter
\* revealed first is still shown.
C17_Testigo ==
    /\ palabraSecreta = <<"Ñ", "Á">>
    /\ letrasDescubiertas = << <<"Ñ">>, <<"Á">> >>
    /\ RoundStatus = "Won"
    /\ intentosFallidos > 0

\* C18: before a start has completed no guess is accepted: nothing is recorded
\* or counted and no round ends.
C18_Original ==
    palabraSecreta = <<>>
    => /\ letrasUsadas = {}
       /\ intentosFallidos = 0
       /\ ~juegoTerminado

\* C19: in a round that is InProgress or Won, position i of RevealState shows
\* SecretWord[i] exactly when SecretWord[i] is in GuessedLetters, and
\* AttemptCounter is the number of guessed letters that do not occur in
\* SecretWord.
C19_Coherencia ==
    RoundStatus \in {"InProgress", "Won"}
    => /\ Len(letrasDescubiertas) = Len(palabraSecreta)
       /\ \A i \in 1..Len(palabraSecreta) :
             letrasDescubiertas[i] =
                 IF <<palabraSecreta[i]>> \in letrasUsadas
                 THEN <<palabraSecreta[i]>>
                 ELSE GUION
       /\ intentosFallidos =
             Cardinality({l \in letrasUsadas :
                            \A i \in 1..Len(palabraSecreta) :
                                <<palabraSecreta[i]>> # l})

\* A round in progress with one letter revealed between two hidden ones and
\* three incorrect guesses.
C19_Testigo ==
    /\ RoundStatus = "InProgress"
    /\ letrasDescubiertas = <<GUION, <<"B">>, GUION>>
    /\ letrasUsadas \cap {<<"A">>, <<"B">>} = {<<"B">>}
    /\ intentosFallidos = 3

\* The corpus file of the current theme.
archivoDelTema == IF currentTheme = "musica" THEN "words2.json" ELSE "words.json"

\* C20: when the last pending start completes, the word it installs comes
\* from the corpus of the current theme.
C20_Original ==
    [][ \A archivo \in Archivos :
          (inicioCompletado(archivo) /\ TotalPendientes' = 0)
          => palabraSecreta' \in PalabrasDe(archivoDelTema') ]_vars

\* The enumerated theme tags.
Temas == {"general", "musica"}

\* C21: a click on the restart button leaves currentTheme as it was, one of
\* the enumerated tags, so that the new round is drawn from the corpus of the
\* round it replaces.
C21_Original ==
    [][ clickRestart
        => /\ currentTheme' = currentTheme
           /\ currentTheme' \in Temas ]_vars

\* C22: a started round that is InProgress has a placeholder position whose
\* secret character is a letter of the accepted alphabet that was not guessed
\* yet.
C22_Original ==
    (RoundStatus = "InProgress" /\ palabraSecreta # <<>>)
    => \E i \in 1..Len(palabraSecreta) :
          /\ letrasDescubiertas[i] = GUION
          /\ palabraSecreta[i] \in ClaseLetras
          /\ <<palabraSecreta[i]>> \notin letrasUsadas
====
